---- MODULE Spec2Model ----
(***************************************************************************)
(* Model of the markdown-check service: the POST /api/check handler        *)
(* (route.ts), the URL / target safety checks (lib/security.ts) and the    *)
(* rate limiter (lib/rate-limit.ts).                                       *)
(*                                                                         *)
(* Strings of the program are TLA+ strings; characters are taken with      *)
(* SubSeq.  JavaScript's null / undefined are the model value NULL.        *)
(***************************************************************************)
EXTENDS Integers, Sequences, FiniteSets, TLC

NULL == "<null>"

(***************************************************************************)
(* Bounds of the model                                                     *)
(***************************************************************************)
\* number of clock advances in one behaviour
MaxTicks == 1
\* number of checks admitted for clients other than the primary one
MaxOtherChecks == 1
\* most address records in one DNS answer
MaxRecords == 2
\* longest response body, in characters, handed to readTextLimited on its own
MaxBodyChars == 4
\* largest ceiling handed to readTextLimited on its own
MaxLimit == 3

(***************************************************************************)
(* JavaScript string primitives used by the sources                        *)
(***************************************************************************)
CharAt(s, i) == SubSeq(s, i, i)

UpperChars == "ABCDEFGHIJKLMNOPQRSTUVWXYZ"
LowerChars == "abcdefghijklmnopqrstuvwxyz"

LowerChar(c) ==
    IF \E i \in 1..26 : CharAt(UpperChars, i) = c
    THEN CharAt(LowerChars, CHOOSE i \in 1..26 : CharAt(UpperChars, i) = c)
    ELSE c

RECURSIVE toLowerCase(_)
toLowerCase(s) ==
    IF Len(s) = 0 THEN ""
    ELSE LowerChar(CharAt(s, 1)) \o toLowerCase(SubSeq(s, 2, Len(s)))

includes(s, needle) ==
    \E i \in 1..(Len(s) - Len(needle) + 1) :
        SubSeq(s, i, i + Len(needle) - 1) = needle

startsWith(s, prefix) ==
    /\ Len(prefix) <= Len(s)
    /\ SubSeq(s, 1, Len(prefix)) = prefix

endsWith(s, suffix) ==
    /\ Len(suffix) <= Len(s)
    /\ SubSeq(s, Len(s) - Len(suffix) + 1, Len(s)) = suffix

\* String.prototype.split with a one-character separator
RECURSIVE split(_, _)
split(s, sep) ==
    IF \E i \in 1..Len(s) : CharAt(s, i) = sep
    THEN LET i == CHOOSE k \in 1..Len(s) :
                     /\ CharAt(s, k) = sep
                     /\ \A j \in 1..(k - 1) : CharAt(s, j) # sep
         IN  <<SubSeq(s, 1, i - 1)>> \o split(SubSeq(s, i + 1, Len(s)), sep)
    ELSE <<s>>

\* String.prototype.replace(pattern, "") with a string pattern: first match only
replaceFirst(s, pat) ==
    IF includes(s, pat)
    THEN LET i == CHOOSE k \in 1..(Len(s) - Len(pat) + 1) :
                     /\ SubSeq(s, k, k + Len(pat) - 1) = pat
                     /\ \A j \in 1..(k - 1) : SubSeq(s, j, j + Len(pat) - 1) # pat
         IN  SubSeq(s, 1, i - 1) \o SubSeq(s, i + Len(pat), Len(s))
    ELSE s

\* String.prototype.trim (blanks only)
RECURSIVE trim(_)
trim(s) ==
    IF Len(s) > 0 /\ CharAt(s, 1) = " " THEN trim(SubSeq(s, 2, Len(s)))
    ELSE IF Len(s) > 0 /\ CharAt(s, Len(s)) = " " THEN trim(SubSeq(s, 1, Len(s) - 1))
    ELSE s

Digits == "0123456789"
IsDigit(c) == \E i \in 1..10 : CharAt(Digits, i) = c
DigitVal(c) == (CHOOSE i \in 1..10 : CharAt(Digits, i) = c) - 1
IsDigits(s) == \A i \in 1..Len(s) : IsDigit(CharAt(s, i))

NaN == -1

RECURSIVE DecimalValue(_)
DecimalValue(s) ==
    IF Len(s) = 0 THEN 0
    ELSE 10 * DecimalValue(SubSeq(s, 1, Len(s) - 1)) + DigitVal(CharAt(s, Len(s)))

\* Number(string): the empty string is 0, a run of decimal digits its value,
\* anything else met in the model's inputs is NaN
Number(s) == IF IsDigits(s) THEN DecimalValue(s) ELSE NaN

(***************************************************************************)
(* lib/security.ts                                                         *)
(***************************************************************************)
\* net.isIP: 4 for dotted decimal with four segments 0..255 without leading
\* zeros, 6 for a colon-separated hexadecimal literal (optionally ending in
\* a dotted IPv4 part), 0 otherwise
IsV4Seg(p) ==
    /\ Len(p) \in 1..3
    /\ IsDigits(p)
    /\ (Len(p) > 1 => CharAt(p, 1) # "0")
    /\ DecimalValue(p) <= 255

IsV4Literal(s) ==
    LET parts == split(s, ".")
    IN  /\ Len(parts) = 4
        /\ \A i \in 1..4 : IsV4Seg(parts[i])

HexChars == "0123456789abcdefABCDEF"
IsHexGroup(p) ==
    /\ Len(p) \in 0..4
    /\ \A i \in 1..Len(p) : \E j \in 1..Len(HexChars) : CharAt(HexChars, j) = CharAt(p, i)

IsV6Literal(s) ==
    LET groups == split(s, ":")
        n      == Len(groups)
    IN  /\ n \in 3..8
        /\ \A i \in 1..(n - 1) : IsHexGroup(groups[i])
        /\ IsHexGroup(groups[n]) \/ IsV4Literal(groups[n])
        /\ includes(s, "::") \/ n = 8

isIP(s) == IF IsV4Literal(s) THEN 4 ELSE IF IsV6Literal(s) THEN 6 ELSE 0

isPrivateIPv4(ip) ==
    LET raw   == split(ip, ".")
        parts == [i \in 1..Len(raw) |-> Number(raw[i])]
    IN  IF Len(parts) # 4 \/ \E i \in 1..Len(parts) : parts[i] = NaN
        THEN TRUE
        ELSE LET a == parts[1]
                 b == parts[2]
             IN  IF a = 10 \/ a = 127 \/ a = 0 THEN TRUE
                 ELSE IF a = 169 /\ b = 254 THEN TRUE
                 ELSE IF a = 172 /\ b >= 16 /\ b <= 31 THEN TRUE
                 ELSE IF a = 192 /\ b = 168 THEN TRUE
                 ELSE IF a = 100 /\ b >= 64 /\ b <= 127 THEN TRUE
                 ELSE IF a >= 224 THEN TRUE
                 ELSE FALSE

isPrivateIPv6(ip) ==
    LET normalized == toLowerCase(ip)
    IN  \/ normalized = "::1"
        \/ normalized = "::"
        \/ startsWith(normalized, "fc")
        \/ startsWith(normalized, "fd")
        \/ startsWith(normalized, "fe8")
        \/ startsWith(normalized, "fe9")
        \/ startsWith(normalized, "fea")
        \/ startsWith(normalized, "feb")

isPrivateIp(ip) ==
    LET family == isIP(ip)
    IN  IF family = 4 THEN isPrivateIPv4(ip)
        ELSE IF family = 6
             THEN IF startsWith(ip, "::ffff:") /\ isIP(replaceFirst(ip, "::ffff:")) = 4
                  THEN isPrivateIPv4(replaceFirst(ip, "::ffff:"))
                  ELSE isPrivateIPv6(ip)
        ELSE TRUE

(***************************************************************************)
(* lib/rate-limit.ts                                                       *)
(***************************************************************************)
LIMIT == 30
WINDOW_MS == 10 * 60 * 1000

Max(a, b) == IF a >= b THEN a ELSE b

\* store.get(identifier) ?? []
bucketOf(st, identifier) == IF identifier \in DOMAIN st THEN st[identifier] ELSE <<>>

\* fresh, dropping a timestamp already when it is exactly one window old
fresh_strict(bucket, t) == SelectSeq(bucket, LAMBDA timestamp : t - timestamp < WINDOW_MS)

\* bucket.filter((timestamp) => now - timestamp <= WINDOW_MS)
fresh(bucket, t) == SelectSeq(bucket, LAMBDA timestamp : t - timestamp <= WINDOW_MS)

\* the RateLimitResult of the in-process branch of enforceRateLimit
localResult(bucket, t) ==
    LET f == fresh(bucket, t)
    IN  IF Len(f) >= LIMIT
        THEN [success |-> FALSE, limit |-> LIMIT, remaining |-> 0,
              reset |-> f[1] + WINDOW_MS]
        ELSE [success |-> TRUE, limit |-> LIMIT,
              remaining |-> Max(0, LIMIT - (Len(f) + 1)),
              reset |-> t + WINDOW_MS]

\* localBucket that pushes the timestamp before it tests the limit
localBucket_always(bucket, t) == Append(fresh(bucket, t), t)

\* the bucket the in-process branch stores back with store.set
localBucket(bucket, t) ==
    LET f == fresh(bucket, t)
    IN  IF Len(f) >= LIMIT THEN f ELSE Append(f, t)

\* storeSet that replaces the whole Map by the one bucket
storeSet_onlyThis(st, identifier, bucket) == [k \in {identifier} |-> bucket]

\* store.set(identifier, bucket)
storeSet(st, identifier, bucket) ==
    [k \in (DOMAIN st) \cup {identifier} |-> IF k = identifier THEN bucket ELSE st[k]]

(***************************************************************************)
(* new URL(raw): the fields of the parsed URL the sources read.  Covers     *)
(* absolute URLs "scheme://[user[:password]@]host[:port][/path]" and        *)
(* "scheme:opaque"; anything without a scheme does not parse.               *)
(***************************************************************************)
indexOf(s, c) ==
    IF \E i \in 1..Len(s) : CharAt(s, i) = c
    THEN CHOOSE i \in 1..Len(s) :
            /\ CharAt(s, i) = c
            /\ \A j \in 1..(i - 1) : CharAt(s, j) # c
    ELSE 0

IsAlpha(s) ==
    /\ Len(s) > 0
    /\ \A i \in 1..Len(s) : \E j \in 1..26 : CharAt(LowerChars, j) = CharAt(s, i)

InvalidUrl == [ok |-> FALSE, protocol |-> "", username |-> "", password |-> "",
               hostname |-> "", href |-> ""]

\* the URL record of scheme://[userinfo@]hostport path, hostport in lower case
urlFromParts(scheme, userinfo, hostport, path) ==
    IF indexOf(hostport, ":") = 1 \/ hostport = ""
    THEN (IF scheme \in {"http", "https", "ftp", "ws", "wss"} THEN InvalidUrl
          ELSE [ok |-> TRUE, protocol |-> scheme \o ":", username |-> "",
                password |-> "", hostname |-> "",
                href |-> scheme \o "://" \o hostport \o path])
    ELSE [ok |-> TRUE, protocol |-> scheme \o ":",
          username |-> IF indexOf(userinfo, ":") = 0 THEN userinfo
                       ELSE SubSeq(userinfo, 1, indexOf(userinfo, ":") - 1),
          password |-> IF indexOf(userinfo, ":") = 0 THEN ""
                       ELSE SubSeq(userinfo, indexOf(userinfo, ":") + 1, Len(userinfo)),
          hostname |-> IF startsWith(hostport, "[")
                       THEN SubSeq(hostport, 1, indexOf(hostport, "]"))
                       ELSE IF indexOf(hostport, ":") = 0 THEN hostport
                       ELSE SubSeq(hostport, 1, indexOf(hostport, ":") - 1),
          href |-> scheme \o "://" \o (IF userinfo = "" THEN "" ELSE userinfo \o "@")
                   \o hostport \o path]

\* the authority splits at "@" into userinfo and host[:port]
parseAuthority(scheme, auth, path) ==
    urlFromParts(scheme,
                 SubSeq(auth, 1, indexOf(auth, "@") - 1),
                 toLowerCase(SubSeq(auth, indexOf(auth, "@") + 1, Len(auth))),
                 path)

\* what follows "scheme://" splits at the first "/" into authority and path
parseHierarchical(scheme, after) ==
    IF indexOf(after, "/") = 0 THEN parseAuthority(scheme, after, "/")
    ELSE parseAuthority(scheme, SubSeq(after, 1, indexOf(after, "/") - 1),
                        SubSeq(after, indexOf(after, "/"), Len(after)))

parseSchemeAndRest(raw, scheme, rest) ==
    IF ~IsAlpha(scheme) \/ includes(raw, " ") THEN InvalidUrl
    ELSE IF ~startsWith(rest, "//")
    THEN [ok |-> TRUE, protocol |-> scheme \o ":", username |-> "",
          password |-> "", hostname |-> "", href |-> scheme \o ":" \o rest]
    ELSE parseHierarchical(scheme, SubSeq(rest, 3, Len(rest)))

parseURL(raw) ==
    parseSchemeAndRest(raw,
                       toLowerCase(SubSeq(raw, 1, indexOf(raw, ":") - 1)),
                       SubSeq(raw, indexOf(raw, ":") + 1, Len(raw)))

\* supportedOrThrow without the test of username and password
supportedOrThrow_noCredentialCheck(parsed) ==
    IF ~parsed.ok THEN [threw |-> "Invalid URL", url |-> InvalidUrl]
    ELSE IF parsed.protocol \notin {"http:", "https:"}
    THEN [threw |-> "Only HTTP(S) URLs are supported.", url |-> InvalidUrl]
    ELSE [threw |-> "", url |-> parsed]

\* the checks of assertSupportedUrl on the parsed URL: the URL, or the message
\* of the Error thrown
supportedOrThrow(parsed) ==
    IF ~parsed.ok THEN [threw |-> "Invalid URL", url |-> InvalidUrl]
    ELSE IF parsed.protocol \notin {"http:", "https:"}
    THEN [threw |-> "Only HTTP(S) URLs are supported.", url |-> InvalidUrl]
    ELSE IF parsed.username # "" \/ parsed.password # ""
    THEN [threw |-> "URLs with credentials are not allowed.", url |-> InvalidUrl]
    ELSE [threw |-> "", url |-> parsed]

assertSupportedUrl(rawUrl) == supportedOrThrow(parseURL(rawUrl))

\* assertSafeTarget up to its await: "" to return, "lookup" to call dns.lookup,
\* otherwise the message of the Error thrown
safeTargetBeforeLookup(url) ==
    LET host == toLowerCase(url.hostname)
    IN  IF host = "localhost" \/ endsWith(host, ".local")
        THEN "Local targets are blocked."
        ELSE IF isIP(host) # 0
        THEN (IF isPrivateIp(host) THEN "Private IP ranges are blocked." ELSE "")
        ELSE "lookup"

\* safeTargetAfterLookup that looks at the first record only
safeTargetAfterLookup_first(records) ==
    IF Len(records) = 0 THEN "Could not resolve hostname."
    ELSE IF isPrivateIp(records[1])
    THEN "Resolved to a private IP range, request blocked."
    ELSE ""

\* assertSafeTarget after dns.lookup returned records: "" to return, otherwise
\* the message of the Error thrown
safeTargetAfterLookup(records) ==
    IF Len(records) = 0 THEN "Could not resolve hostname."
    ELSE IF \E i \in 1..Len(records) : isPrivateIp(records[i])
    THEN "Resolved to a private IP range, request blocked."
    ELSE ""

(***************************************************************************)
(* route.ts: readTextLimited and the TextDecoder it drives                 *)
(*                                                                         *)
(* A character is a one-byte character ("a") or the two-byte character     *)
(* "e_acute", whose UTF-8 bytes are C3 A9; a text is a sequence of characters.    *)
(***************************************************************************)
MAX_MARKDOWN_CHARS == 50000

Chars == {"a", "e_acute"}
REPLACEMENT == "U+FFFD"

\* the UTF-8 bytes of a text, as the target sends them
RECURSIVE utf8(_)
utf8(chars) ==
    IF chars = <<>> THEN <<>>
    ELSE (IF Head(chars) = "e_acute" THEN <<"C3", "A9">> ELSE <<Head(chars)>>)
         \o utf8(Tail(chars))

\* TextDecoder.decode(value, { stream: true }): the characters completed by
\* the bytes, and the bytes of an incomplete character kept for the next call
RECURSIVE decodeStream(_, _)
decodeStream(held, bytes) ==
    IF bytes = <<>> THEN [out |-> <<>>, held |-> held]
    ELSE LET b == Head(bytes)
         IN  IF held = <<>>
             THEN IF b = "C3"
                  THEN decodeStream(<<b>>, Tail(bytes))
                  ELSE LET r == decodeStream(<<>>, Tail(bytes))
                       IN  [out  |-> <<IF b = "A9" THEN REPLACEMENT ELSE b>> \o r.out,
                            held |-> r.held]
             ELSE IF b = "A9"
                  THEN LET r == decodeStream(<<>>, Tail(bytes))
                       IN  [out |-> <<"e_acute">> \o r.out, held |-> r.held]
                  ELSE LET r == decodeStream(<<>>, bytes)
                       IN  [out |-> <<REPLACEMENT>> \o r.out, held |-> r.held]

\* decodeFlush that forgets the held bytes
decodeFlush_drop(held) == <<>>

\* TextDecoder.decode(): the end of the stream turns held bytes into U+FFFD
decodeFlush(held) == IF held = <<>> THEN <<>> ELSE <<REPLACEMENT>>

\* String.prototype.slice(0, n)
slice0(t, n) == SubSeq(t, 1, IF Len(t) < n THEN Len(t) ELSE n)

\* all ways a byte sequence arrives as a sequence of non-empty chunks
RECURSIVE Chunkings(_)
Chunkings(bytes) ==
    IF bytes = <<>> THEN {<<>>}
    ELSE UNION { { <<SubSeq(bytes, 1, k)>> \o rest :
                     rest \in Chunkings(SubSeq(bytes, k + 1, Len(bytes))) } :
                 k \in 1..Len(bytes) }

Bodies == UNION { [1..n -> Chars] : n \in 0..MaxBodyChars }

(***************************************************************************)
(* route.ts: helpers of the handler                                        *)
(***************************************************************************)
FETCH_TIMEOUT_MS == 10000

\* getIpFromRequest: the x-forwarded-for and x-real-ip header values
getIpFromRequest(forwarded, realIp) ==
    IF forwarded # NULL /\ forwarded # ""
    THEN LET first == trim(split(forwarded, ",")[1])
         IN  IF first # "" THEN first ELSE "unknown"
    ELSE IF realIp # NULL /\ realIp # "" THEN realIp ELSE "unknown"

\* isMarkdownContentType that compares the header value as it was sent
isMarkdownContentType_exact(contentType) ==
    IF contentType = NULL \/ contentType = "" THEN FALSE
    ELSE includes(contentType, "text/markdown")

isMarkdownContentType(contentType) ==
    IF contentType = NULL \/ contentType = "" THEN FALSE
    ELSE includes(toLowerCase(contentType), "text/markdown")

\* Response.ok
responseOk(status) == status >= 200 /\ status <= 299

\* const found = response.ok && isMarkdownContentType(contentType)
foundOf(status, contentType) == responseOk(status) /\ isMarkdownContentType(contentType)

\* reasonOf that tests for a non-2xx status before it tests for a redirect
reasonOf_okFirst(found, status) ==
    IF found THEN "Markdown detected: 2xx response with Content-Type text/markdown."
    ELSE IF ~responseOk(status) THEN "Target returned a non-2xx status."
    ELSE IF status >= 300 /\ status < 400
    THEN "Redirect response received and redirects are intentionally disabled."
    ELSE "Target ignored markdown negotiation or returned a different content type."

\* the if / else if chain that sets reason
reasonOf(found, status) ==
    IF found THEN "Markdown detected: 2xx response with Content-Type text/markdown."
    ELSE IF status >= 300 /\ status < 400
    THEN "Redirect response received and redirects are intentionally disabled."
    ELSE IF ~responseOk(status) THEN "Target returned a non-2xx status."
    ELSE "Target ignored markdown negotiation or returned a different content type."

\* isTimeout that trusts the name TimeoutError only
isTimeout_nameOnly(err) == err.isError /\ err.name = "Timeout"

\* the isTimeout test of the handler's catch block
isTimeout(err) ==
    /\ err.isError
    /\ \/ err.name = "TimeoutError"
       \/ err.name = "AbortError"
       \/ includes(toLowerCase(err.message), "timeout")

(***************************************************************************)
(* State                                                                   *)
(***************************************************************************)
VARIABLES
    \* lib/rate-limit.ts and the clock
    hasUpstash,   \* both Upstash environment variables are set
    store,        \* the in-process Map identifier -> timestamps
    now,          \* Date.now()
    ticks,        \* clock advances so far
    allowedAt,    \* per identifier, the times of the checks that were allowed
    lastCheck,    \* the latest call of enforceRateLimit and what it returned
    \* one POST /api/check request
    pc,           \* the await the handler is suspended at
    ip,           \* getIpFromRequest(request)
    rate,         \* the handler's RateLimitResult
    payload,      \* the request body as sent by the client
    target,       \* the URL returned by assertSupportedUrl
    probe,        \* the Response of the outbound fetch
    error,        \* the value caught by the handler's catch (error) blocks
    response,     \* the response of the handler
    trace,        \* the stages the handler has run, in order
    lookups,      \* hostnames handed to dns.lookup
    answer,       \* what dns.lookup answered
    outbound,     \* outbound HTTP requests issued
    connected,    \* addresses the outbound fetch connected to
    \* readTextLimited
    limitChars,   \* the ceiling
    reader,       \* response.body?.getReader() returned a reader
    chunks,       \* chunks the reader has not delivered yet
    pending,      \* bytes of an incomplete character held by the TextDecoder
    text,         \* the accumulated text
    truncated,    \* the truncated flag
    reads,        \* reader.read() calls so far
    bodyChars,    \* the characters of the whole response body
    readResult,   \* the value readTextLimited returned
    \* lib/security.ts: the classifiers called on their own
    address,      \* the string handed to isPrivateIp and isPrivateIPv4
    classified    \* what they returned

limiterVars == <<hasUpstash, store, now, ticks, allowedAt, lastCheck>>
requestVars == <<pc, ip, rate, payload, target, probe, error, response, trace,
                 lookups, answer, outbound, connected>>
readVars    == <<limitChars, reader, chunks, pending, text, truncated, reads, bodyChars,
                 readResult>>
classifyVars == <<address, classified>>
vars        == <<limiterVars, requestVars, readVars, classifyVars>>

(***************************************************************************)
(* Clients                                                                 *)
(***************************************************************************)
\* no RateLimitResult yet / no call of enforceRateLimit yet
NoResult == [success |-> FALSE, limit |-> 0, remaining |-> 0, reset |-> 0]
NoCheck  == [identifier |-> NULL, at |-> 0, result |-> NoResult]

NoAnswer   == [state |-> "none", records |-> <<>>]
NoPayload  == [json |-> "", urlType |-> "", url |-> ""]
NoProbe    == [status |-> 0, contentType |-> NULL, location |-> NULL]
NoError    == [thrown |-> FALSE, isError |-> FALSE, name |-> "", message |-> "",
               timer |-> FALSE]
NoResponse == [status |-> 0, error |-> "", details |-> "", found |-> FALSE,
               reason |-> "", url |-> "", probeStatus |-> 0, contentType |-> NULL,
               location |-> NULL, markdown |-> <<>>, truncated |-> FALSE,
               rateLimit |-> NoResult]

\* readTextLimited has not returned
NoRead   == [returned |-> FALSE, text |-> <<>>, truncated |-> FALSE]

PrimaryId   == "1.1.1.1"
Identifiers == {PrimaryId, "unknown"}

\* the clock advances by a millisecond, by one window, or past one window
TickSteps == {1, WINDOW_MS, WINDOW_MS + 1}

InitLimiterVars ==
    /\ store = <<>>
    /\ now = 0
    /\ ticks = 0
    /\ allowedAt = [i \in Identifiers |-> <<>>]
    /\ lastCheck = NoCheck

InitRequestLocals ==
    /\ ip = NULL
    /\ rate = NoResult
    /\ payload = NoPayload
    /\ target = InvalidUrl
    /\ probe = NoProbe
    /\ error = NoError
    /\ response = NoResponse
    /\ trace = <<>>
    /\ lookups = <<>>
    /\ answer = NoAnswer
    /\ outbound = <<>>
    /\ connected = <<>>

InitRequestVars ==
    /\ pc = "idle"
    /\ InitRequestLocals

\* the classifiers have not been called
NoVerdict == [decided |-> FALSE, family |-> 0, isPrivateIp |-> FALSE,
              isPrivateIPv4 |-> FALSE]

InitClassifyVars ==
    /\ address = NULL
    /\ classified = NoVerdict

InitReadVars ==
    /\ limitChars = 0
    /\ reader = FALSE
    /\ chunks = <<>>
    /\ pending = <<>>
    /\ text = <<>>
    /\ truncated = FALSE
    /\ reads = 0
    /\ bodyChars = <<>>
    /\ readResult = NoRead

(***************************************************************************)
(* The in-process limiter on its own                                       *)
(***************************************************************************)
\* the clock advances
Tick(d) ==
    /\ ticks < MaxTicks
    /\ now' = now + d
    /\ ticks' = ticks + 1
    /\ UNCHANGED <<hasUpstash, store, allowedAt, lastCheck, requestVars, readVars,
                   classifyVars>>

\* traffic of the clients other than the primary one is bounded
MayCheck(identifier) ==
    identifier = PrimaryId \/ Len(allowedAt[identifier]) < MaxOtherChecks

\* the effect of the in-process branch of enforceRateLimit(identifier)
LocalEnforce(identifier) ==
    LET bucket == bucketOf(store, identifier)
        result == localResult(bucket, now)
    IN  /\ store' = storeSet(store, identifier, localBucket(bucket, now))
        /\ lastCheck' = [identifier |-> identifier, at |-> now, result |-> result]
        /\ allowedAt' = IF result.success
                        THEN [allowedAt EXCEPT ![identifier] = Append(@, now)]
                        ELSE allowedAt

\* enforceRateLimit(identifier) called directly, in-process limiter
EnforceRateLimit(identifier) ==
    /\ ~hasUpstash
    /\ MayCheck(identifier)
    /\ LocalEnforce(identifier)
    /\ UNCHANGED <<hasUpstash, now, ticks, requestVars, readVars, classifyVars>>

InitLimiter ==
    /\ hasUpstash = FALSE
    /\ InitLimiterVars
    /\ InitRequestVars
    /\ InitReadVars
    /\ InitClassifyVars

NextLimiter ==
    \/ \E d \in TickSteps : Tick(d)
    \/ \E identifier \in Identifiers : EnforceRateLimit(identifier)

SpecLimiter == InitLimiter /\ [][NextLimiter]_vars

(***************************************************************************)
(* What the clients and the network can send                               *)
(***************************************************************************)
\* <<x-forwarded-for, x-real-ip>> of a request
HeaderSamples ==
    { <<"1.1.1.1, 2.2.2.2", NULL>>, <<NULL, "1.1.1.1">>, <<NULL, NULL>>,
      <<" ,9.9.9.9", "1.1.1.1">> }

RawUrls ==
    { "http://ex.com/a", " HTTPS://EX.COM ", "ftp://ex.com/", "file:///etc/passwd",
      "http://user:pw@ex.com/", "http://user@10.0.0.1/", "not a url",
      "http://localhost/", "http://Printer.LOCAL/", "http://127.0.0.1:8080/",
      "http://8.8.8.8/", "http://[::1]/", "http://[2606:2800::1]/" }

\* request bodies: not JSON, the JSON values null and 5, and JSON objects whose
\* url member is absent, a number, or a string
Payloads ==
    { [json |-> "invalid", urlType |-> "", url |-> ""],
      [json |-> "null", urlType |-> "", url |-> ""],
      [json |-> "scalar", urlType |-> "", url |-> ""],
      [json |-> "object", urlType |-> "undefined", url |-> ""],
      [json |-> "object", urlType |-> "number", url |-> "5"],
      [json |-> "object", urlType |-> "string", url |-> ""] }
    \cup { [json |-> "object", urlType |-> "string", url |-> u] : u \in RawUrls }

AddressPool == {"93.184.216.34", "2606:2800::1", "10.0.0.1", "::ffff:127.0.0.1"}

\* the answers dns.lookup(host, { all: true }) can give
DnsAnswers == UNION { [1..n -> AddressPool] : n \in 0..MaxRecords }

UpstashResults ==
    { [success |-> TRUE, limit |-> 30, remaining |-> 29, reset |-> 600000],
      [success |-> FALSE, limit |-> 30, remaining |-> 0, reset |-> 600000] }

Statuses == {200, 299, 300, 301, 404}
ContentTypes == {NULL, "text/markdown", "Text/Markdown; charset=UTF-8", "text/html",
                 "text/markdow"}

\* status line and headers of the target's response
ProbeResponses ==
    { [status |-> st, contentType |-> ct, location |-> NULL] :
        st \in Statuses, ct \in ContentTypes }
    \cup { [status |-> st, contentType |-> "text/markdown",
            location |-> "http://169.254.169.254/"] : st \in {200, 301} }

\* bodies of the target's response
HandlerBodies == { <<>>, <<"a", "e_acute">> }

\* what fetch or reader.read() can reject with, the timeout aside
TransportErrors ==
    { [thrown |-> TRUE, isError |-> TRUE, name |-> "TypeError",
       message |-> "fetch failed", timer |-> FALSE],
      [thrown |-> TRUE, isError |-> TRUE, name |-> "ConnectTimeoutError",
       message |-> "Connect Timeout Error", timer |-> FALSE],
      [thrown |-> TRUE, isError |-> FALSE, name |-> "",
       message |-> "socket closed", timer |-> FALSE] }

\* the reason of AbortSignal.timeout(FETCH_TIMEOUT_MS)
TimeoutError ==
    [thrown |-> TRUE, isError |-> TRUE, name |-> "TimeoutError",
     message |-> "The operation was aborted due to timeout", timer |-> TRUE]

(***************************************************************************)
(* route.ts: the responses of POST                                         *)
(***************************************************************************)
errorResponse(status, message) == [NoResponse EXCEPT !.status = status, !.error = message]

rateLimitedResponse(r) ==
    [NoResponse EXCEPT !.status = 429,
                       !.error = "Rate limit exceeded. Try again in a few minutes.",
                       !.rateLimit = r]

\* the handler's promise rejects; the framework answers for it
unhandledResponse(message) ==
    [NoResponse EXCEPT !.status = 500, !.error = "<unhandled rejection>",
                       !.details = message]

\* okResponse that leaves markdown and truncated at their initial values
okResponse_ignoresRead(r, url, p, read) ==
    [NoResponse EXCEPT !.status = 200, !.found = foundOf(p.status, p.contentType),
                       !.reason = reasonOf(foundOf(p.status, p.contentType), p.status),
                       !.url = url.href, !.probeStatus = p.status,
                       !.contentType = p.contentType, !.location = p.location,
                       !.rateLimit = r]

\* the 200 response of POST
okResponse(r, url, p, read) ==
    LET found == foundOf(p.status, p.contentType)
    IN  [NoResponse EXCEPT !.status = 200, !.found = found,
                           !.reason = reasonOf(found, p.status),
                           !.url = url.href, !.probeStatus = p.status,
                           !.contentType = p.contentType, !.location = p.location,
                           !.markdown = read.text, !.truncated = read.truncated,
                           !.rateLimit = r]

\* the catch block around the probe
probeFailureResponse(err) ==
    [NoResponse EXCEPT !.status = IF isTimeout(err) THEN 504 ELSE 502,
                       !.error = IF isTimeout(err)
                                 THEN "Request timed out after 10 seconds."
                                 ELSE "Failed to fetch target URL.",
                       !.details = err.message]

\* probeRequest with fetch's default redirect mode
probeRequest_follow(url) ==
    [url |-> url.href, method |-> "GET", redirect |-> "follow",
     accept |-> "text/markdown"]

\* the request fetch() sends
probeRequest(url) ==
    [url |-> url.href, method |-> "GET", redirect |-> "manual",
     accept |-> "text/markdown"]

\* POST returns a response from the body checks or the validation
respondStep(status, message, stages) ==
    [next |-> "respond", response |-> errorResponse(status, message),
     url |-> InvalidUrl, stages |-> stages]

\* POST after assertSupportedUrl returned url: assertSafeTarget up to its await
afterSupported(url, safe) ==
    IF safe = "lookup"
    THEN [next |-> "lookup", response |-> NoResponse, url |-> url,
          stages |-> <<"validate", "safety">>]
    ELSE IF safe # ""
    THEN respondStep(400, safe, <<"validate", "safety">>)
    ELSE [next |-> "fetch", response |-> NoResponse, url |-> url,
          stages |-> <<"validate", "safety", "probe">>]

\* POST after the call of assertSupportedUrl
afterValidate(supported) ==
    IF supported.threw # "" THEN respondStep(400, supported.threw, <<"validate">>)
    ELSE afterSupported(supported.url, safeTargetBeforeLookup(supported.url))

\* POST from the return of request.json() to its next await or its return:
\* what it does next, the response or message, the target and the stages run
afterJson(pl) ==
    IF pl.json = "invalid" THEN respondStep(400, "Invalid JSON body.", <<>>)
    ELSE IF pl.json = "null"
    THEN [next |-> "respond",
          response |-> unhandledResponse("Cannot read properties of null (reading 'url')"),
          url |-> InvalidUrl, stages |-> <<>>]
    ELSE IF pl.json = "scalar" \/ pl.urlType = "undefined" \/ pl.url = ""
    THEN respondStep(400, "URL is required.", <<>>)
    ELSE IF pl.urlType # "string"
    THEN respondStep(400, "body.url.trim is not a function", <<>>)
    ELSE afterValidate(assertSupportedUrl(trim(pl.url)))

(***************************************************************************)
(* route.ts: POST, one action per resumption of the handler                *)
(***************************************************************************)
\* a request arrives: POST runs up to await enforceRateLimit(ip); the
\* in-process branch of enforceRateLimit has no await, so its update of the
\* store happens in this step
Receive(headers) ==
    LET identifier == getIpFromRequest(headers[1], headers[2])
    IN  /\ pc \in {"idle", "done"}
        /\ hasUpstash \/ MayCheck(identifier)
        /\ pc' = "awaitRate"
        /\ ip' = identifier
        /\ payload' = NoPayload
        /\ trace' = <<"rateLimit">>
        /\ IF hasUpstash
           THEN /\ rate' = NoResult
                /\ UNCHANGED <<store, lastCheck, allowedAt>>
           ELSE /\ LocalEnforce(identifier)
                /\ rate' = localResult(bucketOf(store, identifier), now)
        /\ target' = InvalidUrl
        /\ probe' = NoProbe
        /\ error' = NoError
        /\ response' = NoResponse
        /\ lookups' = <<>>
        /\ answer' = NoAnswer
        /\ outbound' = <<>>
        /\ connected' = <<>>
        /\ limitChars' = 0
        /\ reader' = FALSE
        /\ chunks' = <<>>
        /\ pending' = <<>>
        /\ text' = <<>>
        /\ truncated' = FALSE
        /\ reads' = 0
        /\ bodyChars' = <<>>
        /\ readResult' = NoRead
        /\ UNCHANGED <<hasUpstash, now, ticks, classifyVars>>

\* enforceRateLimit settles: a rejected check is answered 429, an allowed one
\* goes on to await request.json()
RateReturns(result) ==
    /\ pc = "awaitRate"
    /\ IF hasUpstash THEN result \in UpstashResults ELSE result = rate
    /\ rate' = result
    /\ IF result.success
       THEN /\ pc' = "awaitJson"
            /\ UNCHANGED <<response, trace>>
       ELSE /\ pc' = "done"
            /\ response' = rateLimitedResponse(result)
            /\ trace' = Append(trace, "respond")
    /\ UNCHANGED <<limiterVars, ip, payload, target, probe, error, lookups, answer,
                   outbound, connected, readVars, classifyVars>>

\* upstashLimiter.limit rejects: nothing in POST catches it
RateThrows ==
    /\ pc = "awaitRate"
    /\ hasUpstash
    /\ pc' = "done"
    /\ response' = unhandledResponse("fetch failed")
    /\ trace' = Append(trace, "respond")
    /\ UNCHANGED <<limiterVars, ip, rate, payload, target, probe, error, lookups,
                   answer, outbound, connected, readVars, classifyVars>>

\* request.json() settles: POST runs through the body checks,
\* assertSupportedUrl and assertSafeTarget up to dns.lookup or up to fetch
JsonReturns(pl) ==
    /\ pc = "awaitJson"
    /\ payload' = pl
    /\ \E step \in {afterJson(pl)} :
           /\ pc' = CASE step.next = "respond" -> "done"
                      [] step.next = "lookup"  -> "awaitDns"
                      [] step.next = "fetch"   -> "awaitFetch"
           /\ response' = step.response
           /\ target' = step.url
           /\ trace' = trace \o step.stages
                       \o (IF step.next = "respond" THEN <<"respond">> ELSE <<>>)
           /\ lookups' = IF step.next = "lookup"
                         THEN Append(lookups, toLowerCase(step.url.hostname))
                         ELSE lookups
           /\ outbound' = IF step.next = "fetch"
                          THEN Append(outbound, probeRequest(step.url))
                          ELSE outbound
    /\ UNCHANGED <<limiterVars, ip, rate, probe, error, answer, connected, readVars,
                   classifyVars>>

\* dns.lookup answers: assertSafeTarget classifies the records, then POST calls fetch
DnsReturns(records) ==
    /\ pc = "awaitDns"
    /\ ~startsWith(lookups[Len(lookups)], "[")
    /\ answer' = [state |-> "records", records |-> records]
    /\ LET verdict == safeTargetAfterLookup(records)
       IN  IF verdict = ""
           THEN /\ pc' = "awaitFetch"
                /\ outbound' = Append(outbound, probeRequest(target))
                /\ trace' = Append(trace, "probe")
                /\ UNCHANGED response
           ELSE /\ pc' = "done"
                /\ response' = errorResponse(400, verdict)
                /\ trace' = Append(trace, "respond")
                /\ UNCHANGED outbound
    /\ UNCHANGED <<limiterVars, ip, rate, payload, target, probe, error, lookups,
                   connected, readVars, classifyVars>>

\* dns.lookup rejects (ENOTFOUND): the catch around the validation answers 400
DnsThrows ==
    /\ pc = "awaitDns"
    /\ pc' = "done"
    /\ answer' = [state |-> "threw", records |-> <<>>]
    /\ response' = errorResponse(400, "getaddrinfo ENOTFOUND " \o lookups[Len(lookups)])
    /\ trace' = Append(trace, "respond")
    /\ UNCHANGED <<limiterVars, ip, rate, payload, target, probe, error, lookups,
                   outbound, connected, readVars, classifyVars>>

\* fetch resolves the host name itself and connects, once per request it
\* sends: a literal address is used as it is, a name is resolved again, to
\* whatever the DNS answers now
FetchConnects(addr) ==
    /\ pc = "awaitFetch"
    /\ Len(connected) < Len(outbound)
    /\ LET host == parseURL(outbound[Len(outbound)].url).hostname
       IN  IF isIP(host) # 0 THEN addr = host ELSE addr \in AddressPool
    /\ connected' = Append(connected, addr)
    /\ UNCHANGED <<limiterVars, pc, ip, rate, payload, target, probe, error, response,
                   trace, lookups, answer, outbound, readVars, classifyVars>>

\* the response headers arrive.  With redirect: "manual" fetch resolves with
\* whatever arrived (in any other mode it would send a request to the Location
\* of a 3xx itself).  POST then classifies and, when found, starts
\* readTextLimited; otherwise it answers 200 without reading the body
FetchResponds(p, body, pieces, hasReader) ==
    /\ pc = "awaitFetch"
    /\ Len(connected) = Len(outbound)
    /\ IF /\ outbound[Len(outbound)].redirect # "manual"
          /\ p.status >= 300 /\ p.status < 400
          /\ p.location # NULL
       THEN /\ outbound' = Append(outbound, [outbound[Len(outbound)] EXCEPT !.url = p.location])
            /\ UNCHANGED <<pc, probe, trace, response, readVars>>
       ELSE /\ probe' = p
            /\ UNCHANGED outbound
            /\ IF foundOf(p.status, p.contentType)
               THEN /\ pc' = "awaitRead"
                    /\ trace' = Append(trace, "classify")
                    /\ limitChars' = MAX_MARKDOWN_CHARS
                    /\ reader' = hasReader
                    /\ bodyChars' = body
                    /\ chunks' = pieces
                    /\ UNCHANGED <<response, pending, text, truncated, reads, readResult>>
               ELSE /\ pc' = "done"
                    /\ trace' = trace \o <<"classify", "respond">>
                    /\ response' = okResponse(rate, target, p, NoRead)
                    /\ UNCHANGED readVars
    /\ UNCHANGED <<limiterVars, ip, rate, payload, target, error, lookups, answer,
                   connected, classifyVars>>

\* POST after readTextLimited returned (no request in flight: a direct call)
ReadReturns(result) ==
    /\ readResult' = result
    /\ pc' = "done"
    /\ IF ip = NULL
       THEN UNCHANGED <<response, trace>>
       ELSE /\ response' = okResponse(rate, target, probe, result)
            /\ trace' = Append(trace, "respond")
    /\ UNCHANGED <<limiterVars, ip, rate, payload, target, probe, error, lookups,
                   answer, outbound, connected, limitChars, reader, bodyChars,
                   classifyVars>>

\* reader.read() delivers a chunk
ReadChunk ==
    /\ pc = "awaitRead"
    /\ reader
    /\ chunks # <<>>
    /\ LET decoded == decodeStream(pending, Head(chunks))
           grown   == text \o decoded.out
       IN  /\ chunks' = Tail(chunks)
           /\ reads' = reads + 1
           /\ pending' = decoded.held
           /\ IF Len(grown) > limitChars
              THEN /\ text' = slice0(grown, limitChars) \o decodeFlush(decoded.held)
                   /\ truncated' = TRUE
                   /\ ReadReturns([returned |-> TRUE, text |-> text', truncated |-> TRUE])
              ELSE /\ text' = grown
                   /\ UNCHANGED <<truncated, readResult, limiterVars, requestVars,
                                  limitChars, reader, bodyChars, classifyVars>>

\* reader.read() reports the end of the body
ReadDone ==
    /\ pc = "awaitRead"
    /\ reader
    /\ chunks = <<>>
    /\ reads' = reads + 1
    /\ text' = text \o decodeFlush(pending)
    /\ ReadReturns([returned |-> TRUE, text |-> text', truncated |-> truncated])
    /\ UNCHANGED <<chunks, pending, truncated>>

\* response.body is null: readTextLimited falls back to response.text()
ReadFallback ==
    /\ pc = "awaitRead"
    /\ ~reader
    /\ LET fallback == bodyChars
       IN  /\ text' = slice0(fallback, limitChars)
           /\ truncated' = (Len(fallback) > limitChars)
           /\ ReadReturns([returned |-> TRUE, text |-> text', truncated |-> truncated'])
    /\ UNCHANGED <<chunks, pending, reads>>

\* the catch block around the probe answers for a rejected fetch or read
ProbeFails(err) ==
    /\ error' = err
    /\ pc' = "done"
    /\ response' = probeFailureResponse(err)
    /\ trace' = Append(trace, "respond")
    /\ UNCHANGED <<limiterVars, ip, rate, payload, target, probe, lookups, answer,
                   outbound, connected, readVars, classifyVars>>

\* fetch rejects: name resolution, connection or TLS failed
FetchFails(err) ==
    /\ pc = "awaitFetch"
    /\ ProbeFails(err)

\* reader.read() rejects: the transfer broke while the body was read
ReadFails(err) ==
    /\ pc = "awaitRead"
    /\ reader
    /\ ProbeFails(err)

\* AbortSignal.timeout fires: the pending fetch or read rejects with its reason
Timeout ==
    /\ pc \in {"awaitFetch", "awaitRead"}
    /\ ProbeFails(TimeoutError)

\* a deployment with the Upstash limiter configured
Init ==
    /\ hasUpstash = TRUE
    /\ InitLimiterVars
    /\ InitRequestVars
    /\ InitReadVars
    /\ InitClassifyVars

Next ==
    \/ \E headers \in HeaderSamples : Receive(headers)
    \/ \E result \in UpstashResults \cup {rate} : RateReturns(result)
    \/ RateThrows
    \/ \E pl \in Payloads : JsonReturns(pl)
    \/ \E records \in DnsAnswers : DnsReturns(records)
    \/ DnsThrows
    \/ \E addr \in AddressPool \cup {target.hostname} : FetchConnects(addr)
    \/ \E p \in ProbeResponses, body \in HandlerBodies, hasReader \in BOOLEAN :
          \E pieces \in Chunkings(utf8(body)) :
             /\ hasReader \/ body = <<>>
             /\ FetchResponds(p, body, pieces, hasReader)
    \/ ReadChunk
    \/ ReadDone
    \/ ReadFallback
    \/ \E err \in TransportErrors : FetchFails(err)
    \/ \E err \in TransportErrors : ReadFails(err)
    \/ Timeout

Spec == Init /\ [][Next]_vars

\* the timer of AbortSignal.timeout fires if the probe is still pending
SpecFair == Spec /\ WF_vars(Timeout)

(***************************************************************************)
(* readTextLimited on its own                                              *)
(***************************************************************************)
\* readTextLimited(response, limitChars) is called on a response whose body
\* arrives in any chunking
InitRead ==
    /\ hasUpstash = FALSE
    /\ InitLimiterVars
    /\ pc = "awaitRead"
    /\ InitRequestLocals
    /\ limitChars \in 1..MaxLimit
    /\ bodyChars \in Bodies
    /\ reader \in BOOLEAN
    /\ reader \/ bodyChars = <<>>
    /\ chunks \in Chunkings(utf8(bodyChars))
    /\ pending = <<>>
    /\ text = <<>>
    /\ truncated = FALSE
    /\ reads = 0
    /\ readResult = NoRead
    /\ InitClassifyVars

NextRead ==
    \/ ReadChunk
    \/ ReadDone
    \/ ReadFallback

SpecRead == InitRead /\ [][NextRead]_vars

(***************************************************************************)
(* POST with the in-process limiter, other handlers running concurrently   *)
(*                                                                         *)
(* One request is followed through its awaits.  The other handlers of the  *)
(* process matter to it through the store only: while the followed handler *)
(* is suspended, each of them runs its call of enforceRateLimit, which in  *)
(* the in-process branch has no await and so runs to its return.           *)
(***************************************************************************)
LocalHeaders  == { <<NULL, "1.1.1.1">> }
LocalPayloads ==
    { [json |-> "invalid", urlType |-> "", url |-> ""],
      [json |-> "object", urlType |-> "string", url |-> "http://localhost/"],
      [json |-> "object", urlType |-> "string", url |-> "http://ex.com/a"] }
LocalAnswers  == { <<"93.184.216.34">> }
LocalProbes   ==
    { [status |-> 200, contentType |-> "text/markdown", location |-> NULL] }
LocalErrors   == { err \in TransportErrors : err.name = "TypeError" }

\* the clock is sampled where the limiter's answer changes: it advances
\* past one window while the primary client's bucket is full, between two
\* requests of the followed handler
LocalTick ==
    /\ Len(bucketOf(store, PrimaryId)) >= LIMIT
    /\ pc \in {"idle", "done"}
    /\ Tick(WINDOW_MS + 1)

\* another handler's call of enforceRateLimit: for the primary client at any
\* time, for another client while that client has no bucket yet
OtherHandler(identifier) ==
    /\ identifier = PrimaryId \/ identifier \notin DOMAIN store
    /\ EnforceRateLimit(identifier)

InitLocal ==
    /\ hasUpstash = FALSE
    /\ InitLimiterVars
    /\ InitRequestVars
    /\ InitReadVars
    /\ InitClassifyVars

NextLocal ==
    \/ \E headers \in LocalHeaders : Receive(headers)
    \/ RateReturns(rate)
    \/ \E pl \in LocalPayloads : JsonReturns(pl)
    \/ \E records \in LocalAnswers : DnsReturns(records)
    \/ FetchConnects("93.184.216.34")
    \/ \E p \in LocalProbes : FetchResponds(p, <<"a">>, <<<<"a">>>>, TRUE)
    \/ ReadChunk
    \/ ReadDone
    \/ \E err \in LocalErrors : FetchFails(err)
    \/ Timeout
    \/ \E identifier \in Identifiers : OtherHandler(identifier)
    \/ LocalTick

SpecLocal == InitLocal /\ [][NextLocal]_vars

(***************************************************************************)
(* lib/security.ts: isPrivateIp and isPrivateIPv4 on their own             *)
(***************************************************************************)
\* first and second octets at and around the edges of the ranges tested
FirstOctets  == {"0", "1", "9", "10", "11", "99", "100", "101", "126", "127", "128",
                 "168", "169", "170", "171", "172", "173", "191", "192", "193",
                 "223", "224", "239", "255"}
SecondOctets == {"0", "15", "16", "31", "32", "63", "64", "127", "128", "167",
                 "168", "169", "253", "254", "255"}
LastOctets   == {"0", "255"}

\* dotted-decimal addresses with four octets in 0..255
DottedAddresses ==
    { a \o "." \o b \o "." \o c \o "." \o d :
        a \in FirstOctets, b \in SecondOctets, c \in LastOctets, d \in LastOctets }

\* strings that are not four dot-separated numeric octets
OtherStrings ==
    { "", "8.8.8", "8.8.8.8.8", "8..8.8", "8.8.8.", ".8.8.8", "a.b.c.d", "8.8.8.x",
      "8.8.8.999", "8.256.8.8", "2606:2800::1", "ex.com" }

\* isPrivateIp(address) and isPrivateIPv4(address) are called and return
Classify ==
    /\ ~classified.decided
    /\ classified' = [decided |-> TRUE, family |-> isIP(address),
                      isPrivateIp |-> isPrivateIp(address),
                      isPrivateIPv4 |-> isPrivateIPv4(address)]
    /\ UNCHANGED <<limiterVars, requestVars, readVars, address>>

InitClassify ==
    /\ hasUpstash = FALSE
    /\ InitLimiterVars
    /\ InitRequestVars
    /\ InitReadVars
    /\ address \in DottedAddresses \cup OtherStrings
    /\ classified = NoVerdict

NextClassify == Classify

SpecClassify == InitClassify /\ [][NextClassify]_vars


(***************************************************************************)
(* C5                                                                      *)
(***************************************************************************)
\* the allowed checks of an identifier that fall in the closed interval [lo, hi]
AllowedIn(identifier, lo, hi) ==
    {i \in 1..Len(allowedAt[identifier]) :
        allowedAt[identifier][i] >= lo /\ allowedAt[identifier][i] <= hi}

\* C5: a check of the in-process limiter at time T is allowed exactly when fewer
\* than 30 earlier checks of that identifier were allowed in [T - window, T] (so
\* the first 30 checks inside a window pass, the 31st is rejected, and a check
\* made after the window has elapsed passes again), a rejection carries
\* remaining = 0, and no interval of one window length ever holds more than 30
\* allowed checks of one identifier.
C5_WindowCap ==
    /\ lastCheck.identifier # NULL =>
         LET r     == lastCheck.result
             prior == Cardinality(AllowedIn(lastCheck.identifier,
                                            lastCheck.at - WINDOW_MS, lastCheck.at))
                      - (IF r.success THEN 1 ELSE 0)
         IN  /\ r.success <=> prior < 30
             /\ ~r.success => r.remaining = 0
    /\ \A identifier \in Identifiers :
         \A t \in {allowedAt[identifier][i] : i \in 1..Len(allowedAt[identifier])} :
            Cardinality(AllowedIn(identifier, t, t + 600000)) <= 30

\* a 31st check of one identifier was allowed, the window of the first 30 having elapsed
C5_Witness ==
    /\ lastCheck.identifier = PrimaryId
    /\ lastCheck.result.success
    /\ Len(allowedAt[PrimaryId]) > 30
    /\ lastCheck.at - allowedAt[PrimaryId][1] > 600000

(***************************************************************************)
(* Reference facts about the inputs, stated without the program's code     *)
(***************************************************************************)
\* the sample URLs with a scheme other than http(s) or with credentials
UnsupportedUrls ==
    {"ftp://ex.com/", "file:///etc/passwd", "http://user:pw@ex.com/", "http://user@10.0.0.1/"}

\* the sample addresses that are private, loopback, link-local or reserved
PrivateAddresses == {"10.0.0.1", "::ffff:127.0.0.1", "127.0.0.1", "::1", "169.254.169.254"}

StageOrder == <<"rateLimit", "validate", "safety", "probe", "classify", "respond">>
StageRank(stage) == CHOOSE i \in 1..Len(StageOrder) : StageOrder[i] = stage
InTrace(stage) == \E i \in 1..Len(trace) : trace[i] = stage

\* assertSafeTarget returned normally for the target of this request
SafetyPassed ==
    IF answer.state = "records"
    THEN /\ Len(answer.records) > 0
         /\ \A i \in 1..Len(answer.records) : answer.records[i] \notin PrivateAddresses
    ELSE /\ answer.state = "none"
         /\ lookups = <<>>
         /\ target.hostname = "8.8.8.8"

(***************************************************************************)
(* C1                                                                      *)
(***************************************************************************)
\* C1: the stages of a request run in the order rate limit, URL validation,
\* target safety, probe, classification, response, and nothing runs after the
\* response; a request that failed (429, 400) has issued no outbound request;
\* the outbound fetch is issued only after the limiter allowed the request and
\* assertSupportedUrl and assertSafeTarget passed for the URL fetched; a URL
\* with another scheme or with credentials is answered 400 with no DNS lookup
\* and no outbound request.
C1_StageOrder ==
    /\ \A i \in 1..Len(trace) : \A j \in 1..Len(trace) :
          i < j => StageRank(trace[i]) < StageRank(trace[j])
    /\ InTrace("respond") <=> pc = "done"
    /\ response.status = 429 => trace = <<"rateLimit", "respond">> /\ lookups = <<>>
    /\ response.status \in {400, 429} => outbound = <<>> /\ connected = <<>>
    /\ outbound # <<>> =>
          /\ rate.success
          /\ InTrace("validate") /\ InTrace("safety") /\ InTrace("probe")
          /\ payload.urlType = "string" /\ payload.url \notin UnsupportedUrls
          /\ target.ok /\ target.protocol \in {"http:", "https:"}
          /\ target.username = "" /\ target.password = ""
          /\ outbound[1].url = target.href
          /\ SafetyPassed
    /\ connected # <<>> => outbound # <<>>
    /\ (payload.urlType = "string" /\ payload.url \in UnsupportedUrls) =>
          /\ response.status = 400
          /\ lookups = <<>> /\ outbound = <<>> /\ connected = <<>>

\* a request went through every stage, DNS lookup included, and was answered 200
C1_Witness ==
    /\ pc = "done"
    /\ response.status = 200
    /\ trace = StageOrder
    /\ lookups # <<>>
    /\ Len(outbound) = 1

(***************************************************************************)
(* C2                                                                      *)
(***************************************************************************)
\* C2: in a 200 response found is true exactly when the probe's status is in
\* [200,300) and its content-type header, compared case-insensitively,
\* contains text/markdown; an absent content-type gives found = false.
C2_FoundRule ==
    response.status = 200 =>
        (response.found <=>
            /\ probe.status >= 200 /\ probe.status < 300
            /\ probe.contentType # NULL
            /\ \E i \in 1..Len(probe.contentType) :
                  /\ i + 12 <= Len(probe.contentType)
                  /\ toLowerCase(SubSeq(probe.contentType, i, i + 12)) = "text/markdown")

\* markdown was found for a content-type in mixed case with a charset suffix
C2_Witness ==
    /\ response.status = 200
    /\ response.found
    /\ probe.contentType = "Text/Markdown; charset=UTF-8"

(***************************************************************************)
(* C3                                                                      *)
(***************************************************************************)
\* C3: after dns.lookup answered, assertSafeTarget fails (the request is
\* answered 400 and no fetch is issued) when the answer is empty or holds a
\* private address at any position, and passes (the fetch is issued) only
\* when the answer is non-empty and every address is public.
C3_EveryRecord ==
    answer.state = "records" =>
        IF \/ Len(answer.records) = 0
           \/ \E i \in 1..Len(answer.records) : answer.records[i] \in PrivateAddresses
        THEN pc = "done" /\ response.status = 400 /\ outbound = <<>>
        ELSE Len(outbound) = 1

\* a private address after a public one in the answer blocked the request
C3_Witness ==
    /\ answer.state = "records"
    /\ answer.records = <<"93.184.216.34", "10.0.0.1">>
    /\ response.status = 400
    /\ response.error = "Resolved to a private IP range, request blocked."

(***************************************************************************)
(* C4                                                                      *)
(***************************************************************************)
\* C4: the outbound probe never connects to a private, loopback, link-local
\* or reserved address; for a host name the address connected to is one
\* that assertSafeTarget classified as public.
C4_NoPrivateConnect ==
    \A i \in 1..Len(connected) :
        /\ connected[i] \notin PrivateAddresses
        /\ answer.state = "records" =>
              \E j \in 1..Len(answer.records) : answer.records[j] = connected[i]

(***************************************************************************)
(* C6                                                                      *)
(***************************************************************************)
\* C6: a request issues at most one outbound HTTP request over at most one
\* connection, exactly one once it reached the probe stage; the request is a
\* GET with Accept: text/markdown; after a failure (502, 504) there is still
\* one request only; a 3xx is answered 200 with found = false and the
\* target's status and Location, no request having gone to the Location.
C6_SingleProbe ==
    /\ Len(outbound) <= 1
    /\ Len(connected) <= 1
    /\ InTrace("probe") <=> Len(outbound) = 1
    /\ \A i \in 1..Len(outbound) :
          /\ outbound[i].method = "GET"
          /\ outbound[i].accept = "text/markdown"
          /\ outbound[i].url = target.href
    /\ response.status \in {200, 502, 504} => Len(outbound) = 1
    /\ (response.status = 200 /\ probe.status >= 300 /\ probe.status < 400) =>
          /\ ~response.found
          /\ response.probeStatus = probe.status
          /\ response.location = probe.location
          /\ response.markdown = <<>>

\* a redirect with a Location was reported to the caller
C6_Witness ==
    /\ response.status = 200
    /\ probe.status = 301
    /\ probe.location = "http://169.254.169.254/"
    /\ Len(outbound) = 1

(***************************************************************************)
(* C7                                                                      *)
(***************************************************************************)
\* C7: readTextLimited with ceiling L returns at most L characters, namely
\* the first min(n, L) characters of the body of n characters, and
\* truncated is true exactly when n > L, however the body is chunked.
C7_PrefixOfBody ==
    readResult.returned =>
        LET n == Len(bodyChars)
            k == IF n < limitChars THEN n ELSE limitChars
        IN  /\ Len(readResult.text) <= limitChars
            /\ readResult.text = SubSeq(bodyChars, 1, k)
            /\ readResult.truncated <=> n > limitChars

(***************************************************************************)
(* C8                                                                      *)
(***************************************************************************)
\* C8: when the timeout fires while the fetch or the body read is pending,
\* the request ends with a 504 whose body names the timeout and the body
\* read is not completed; a request that reached the probe stage always
\* eventually gets its response.
C8_TimeoutAnswered ==
    /\ [](error.timer =>
            /\ pc = "done"
            /\ response.status = 504
            /\ includes(response.error, "timed out")
            /\ ~readResult.returned)
    /\ [](pc \in {"awaitFetch", "awaitRead"} =>
            <>(pc = "done" /\ response.status \in {200, 502, 504}))

\* the timeout fired while the body was being read, after a first chunk
C8_Witness ==
    /\ error.timer
    /\ pc = "done"
    /\ reads > 0
    /\ chunks # <<>>
    /\ response.status = 504

(***************************************************************************)
(* C9                                                                      *)
(***************************************************************************)
\* C9: a probe failure is answered 504 exactly when the timeout mechanism
\* caused it and 502 otherwise, whatever the error's name or message, and
\* the response carries the error text in details.
C9_TimeoutOnly504 ==
    error.thrown =>
        /\ response.status = (IF error.timer THEN 504 ELSE 502)
        /\ response.details = error.message

(***************************************************************************)
(* C10                                                                     *)
(***************************************************************************)
\* C10: every request ends with a response whose status is 200, 400, 429,
\* 502 or 504, whatever the payload and whatever a stage does.
C10_EveryFailureMapped ==
    pc = "done" => response.status \in {200, 400, 429, 502, 504}

(***************************************************************************)
(* C11                                                                     *)
(***************************************************************************)
\* the content-type header names markdown, in any letter case
NamesMarkdown(contentType) ==
    /\ contentType # NULL
    /\ \E i \in 1..Len(contentType) :
          /\ i + 12 <= Len(contentType)
          /\ toLowerCase(SubSeq(contentType, i, i + 12)) = "text/markdown"

\* C11: the reason of a 200 response is fixed by the probe's status and
\* content-type alone, by the first rule that matches: a 2xx status with a
\* markdown content-type gives the markdown-detected reason; otherwise a
\* status in [300,400) gives the redirect reason, also when the content-type
\* is text/markdown; otherwise a status outside [200,300) gives the non-2xx
\* reason; otherwise the ignored-negotiation reason.
C11_ReasonRule ==
    response.status = 200 =>
        response.reason =
            (IF probe.status >= 200 /\ probe.status < 300 /\ NamesMarkdown(probe.contentType)
             THEN "Markdown detected: 2xx response with Content-Type text/markdown."
             ELSE IF probe.status >= 300 /\ probe.status < 400
             THEN "Redirect response received and redirects are intentionally disabled."
             ELSE IF probe.status < 200 \/ probe.status >= 300
             THEN "Target returned a non-2xx status."
             ELSE "Target ignored markdown negotiation or returned a different content type.")

\* a redirect whose content-type is text/markdown got the redirect reason
C11_Witness ==
    /\ response.status = 200
    /\ probe.status = 301
    /\ probe.contentType = "text/markdown"
    /\ response.reason = "Redirect response received and redirects are intentionally disabled."

(***************************************************************************)
(* C12                                                                     *)
(***************************************************************************)
\* the smallest of a non-empty set of times
Oldest(times) == CHOOSE t \in times : \A u \in times : t <= u

\* C12: every decision of the in-process limiter for a check at time T,
\* allowed or rejected, counts the allowed checks of that identifier in
\* [T - window, T] (this check included when it is allowed): remaining is 30
\* minus that count and never negative, and reset is the time of the oldest
\* counted check plus the window.
C12_ResetOfOldest ==
    lastCheck.identifier # NULL =>
        LET counted == { allowedAt[lastCheck.identifier][i] :
                            i \in AllowedIn(lastCheck.identifier,
                                            lastCheck.at - 600000, lastCheck.at) }
            count   == Cardinality(AllowedIn(lastCheck.identifier,
                                             lastCheck.at - 600000, lastCheck.at))
        IN  /\ lastCheck.result.remaining = 30 - count
            /\ lastCheck.result.remaining >= 0
            /\ counted # {}
            /\ lastCheck.result.reset = Oldest(counted) + 600000

(***************************************************************************)
(* C13                                                                     *)
(***************************************************************************)
\* the times in a sequence of timestamps that are at most one window before t
Within(timestamps, t) == SelectSeq(timestamps, LAMBDA ts : t - ts <= 600000)

\* C13: with handlers interleaving at their awaits, the in-process limiter's
\* read-prune-append on a bucket is atomic: at all times the bucket of an
\* identifier holds every allowed check of that identifier that is at most
\* one window old, in order (none lost, none overwritten); no interval of
\* one window length holds more than 30 allowed checks of one identifier;
\* and a step changes the bucket of an identifier only when it is a check of
\* that identifier.
C13_AtomicPerIdentifier ==
    /\ [](\A identifier \in Identifiers :
            /\ Within(bucketOf(store, identifier), now) = Within(allowedAt[identifier], now)
            /\ \A t \in {allowedAt[identifier][i] : i \in 1..Len(allowedAt[identifier])} :
                  Cardinality(AllowedIn(identifier, t, t + 600000)) <= 30)
    /\ [][\A identifier \in Identifiers :
            bucketOf(store', identifier) # bucketOf(store, identifier) =>
                /\ lastCheck'.identifier = identifier
                /\ lastCheck'.at = now]_vars

\* while the followed handler was suspended at its fetch, having been allowed,
\* another handler's check of the same identifier found the bucket full
C13_Witness ==
    /\ pc = "awaitFetch"
    /\ rate.success
    /\ lastCheck.identifier = ip
    /\ ~lastCheck.result.success
    /\ lastCheck.at = now
    /\ Len(bucketOf(store, ip)) = 30

(***************************************************************************)
(* C14                                                                     *)
(***************************************************************************)
\* the sample URLs whose host is a literal IP address, with that address
LiteralTargets ==
    [u \in {"http://127.0.0.1:8080/", "http://8.8.8.8/", "http://[::1]/",
            "http://[2606:2800::1]/"} |->
        CASE u = "http://127.0.0.1:8080/"  -> "127.0.0.1"
          [] u = "http://8.8.8.8/"         -> "8.8.8.8"
          [] u = "http://[::1]/"           -> "::1"
          [] u = "http://[2606:2800::1]/"  -> "2606:2800::1"]

\* C14: for a URL whose host is a literal IPv4 or IPv6 address the safety
\* check makes no DNS lookup and decides on the address itself: a private,
\* loopback or reserved address is answered 400 with no outbound request, any
\* other address passes and is probed; the hosts localhost and *.local, in
\* any letter case, are answered 400 with no lookup and no outbound request.
C14_LiteralNoLookup ==
    payload.urlType = "string" =>
        /\ payload.url \in DOMAIN LiteralTargets =>
              /\ lookups = <<>>
              /\ IF LiteralTargets[payload.url] \in PrivateAddresses
                 THEN pc = "done" /\ response.status = 400 /\ outbound = <<>>
                 ELSE Len(outbound) = 1
        /\ payload.url \in {"http://localhost/", "http://Printer.LOCAL/"} =>
              /\ pc = "done" /\ response.status = 400
              /\ lookups = <<>> /\ outbound = <<>>

(***************************************************************************)
(* C15                                                                     *)
(***************************************************************************)
\* s is four dot-separated decimal numbers in 0..255
FourOctets(s) ==
    /\ Len(split(s, ".")) = 4
    /\ \A i \in 1..4 :
          /\ Len(split(s, ".")[i]) \in 1..3
          /\ IsDigits(split(s, ".")[i])
          /\ DecimalValue(split(s, ".")[i]) <= 255

\* the first 16 bits of a.b.c.d
TopBits(s) == 256 * DecimalValue(split(s, ".")[1]) + DecimalValue(split(s, ".")[2])

\* the 16-bit prefix m lies in the block a.b.0.0/len, len <= 16
InBlock(m, a, b, len) == m \div 2^(16 - len) = (256 * a + b) \div 2^(16 - len)

C16_MarkdownOnlyWhenFound ==
    response.status = 200 =>
        IF response.found
        THEN /\ readResult.returned
             /\ limitChars = 50000
             /\ response.markdown = readResult.text
             /\ response.truncated = readResult.truncated
             /\ Len(bodyChars) <= 50000 =>
                   response.markdown = bodyChars /\ ~response.truncated
        ELSE /\ response.markdown = <<>>
             /\ ~response.truncated
             /\ ~readResult.returned
             /\ reads = 0
             /\ limitChars = 0

\* markdown was found and its body, read in several chunks, is in the response
C16_Witness ==
    /\ response.status = 200
    /\ response.found
    /\ reads > 2
    /\ response.markdown = <<"a", "e_acute">>

(***************************************************************************)
(* C17                                                                     *)
(***************************************************************************)
\* C17: with the in-process limiter, the step in which a request arrives,
\* before its body is parsed, appends exactly one timestamp (the current
\* time) to the pruned bucket of its identifier when the request is allowed,
\* and appends nothing when it is rejected, which happens only on a full
\* bucket; no later step of the request changes the store; a request is
\* answered 429 exactly when it was rejected, so a request answered 200, 400,
\* 500, 502 or 504 has used one unit of quota; and no bucket ever holds more
\* than 30 timestamps.
C17_QuotaConsumed ==
    /\ [](\A identifier \in Identifiers : Len(bucketOf(store, identifier)) <= 30)
    /\ [](pc = "done" =>
            /\ response.status = 429 <=> ~rate.success
            /\ response.status \in {200, 400, 500, 502, 504} <=> rate.success)
    /\ [][(pc # "awaitRate" /\ pc' = "awaitRate") =>
            /\ payload' = NoPayload
            /\ IF rate'.success
               THEN bucketOf(store', ip') = Append(Within(bucketOf(store, ip'), now), now)
               ELSE /\ bucketOf(store', ip') = Within(bucketOf(store, ip'), now)
                    /\ Len(bucketOf(store', ip')) = 30]_vars
    /\ [][(pc \notin {"idle", "done"} /\ pc' # pc) => store' = store]_vars

\* a request with a body that is not JSON was answered 400 and holds the
\* last of the 30 places of its client's bucket
C17_Witness ==
    /\ pc = "done"
    /\ response.status = 400
    /\ response.error = "Invalid JSON body."
    /\ rate.success
    /\ rate.remaining = 0
    /\ Len(bucketOf(store, ip)) = 30

====
